---- MODULE Spec2Model ----
(***************************************************************************)
(* The Netflix dashboard: the loader/cleaner (data.py, dashboard.py), the  *)
(* sidebar filters, the filter engine, the aggregates of the main page and *)
(* the country-code resolver (ui.py), as one Streamlit session whose       *)
(* script is run top to bottom and rerun after every widget change.  The   *)
(* session runs one of two scripts: dashboard.py, which holds everything   *)
(* inline, or the script that calls load_data of data.py, create_sidebar   *)
(* and create_main_page of ui.py and, between the two, the filter that     *)
(* dashboard.py spells out.                                                *)
(*                                                                         *)
(* Text is modelled as TLA+ strings (Len, SubSeq and \o act on them).  A   *)
(* CSV field that is empty is read by pandas as NaN; the model writes that *)
(* NaN as NA, the empty text, which no other CSV field can hold.           *)
(***************************************************************************)
EXTENDS Integers, Sequences, FiniteSets, TLC

\* ------------------------------------------------------------------ text

\* NaN of a text column (an empty CSV field).
NA == ""

\* NaN of a numeric column (Series.dt.year of NaT); no date has year 0.
NaN == 0

\* The value a Python function returns for "no value".
None == "None"

\* Python `c in x` on two strings: c occurs in x as a substring.
StrContains(c, x) ==
    \/ Len(c) = 0
    \/ \E i \in 1..(Len(x) - Len(c) + 1) : SubSeq(x, i, i + Len(c) - 1) = c

\* Python x.find(c): the 0-based place of the first occurrence, -1 if none.
StrFind(x, c) ==
    IF StrContains(c, x)
    THEN (CHOOSE i \in 1..(Len(x) + 1) :
            /\ SubSeq(x, i, i + Len(c) - 1) = c
            /\ \A j \in 1..(i - 1) : SubSeq(x, j, j + Len(c) - 1) # c) - 1
    ELSE -1

\* Python s.split(sep) for a non-empty separator.
RECURSIVE StrSplit(_, _)
StrSplit(s, sep) ==
    LET at == StrFind(s, sep)
    IN  IF at < 0
        THEN <<s>>
        ELSE <<SubSeq(s, 1, at)>> \o StrSplit(SubSeq(s, at + Len(sep) + 1, Len(s)), sep)

\* Python s.strip(): leading and trailing blanks removed.
RECURSIVE StrStrip(_)
StrStrip(s) ==
    IF Len(s) = 0 THEN s
    ELSE IF SubSeq(s, 1, 1) = " " THEN StrStrip(SubSeq(s, 2, Len(s)))
    ELSE IF SubSeq(s, Len(s), Len(s)) = " " THEN StrStrip(SubSeq(s, 1, Len(s) - 1))
    ELSE s

Digits == "0123456789"

IsDigit(ch) == \E d \in 1..Len(Digits) : SubSeq(Digits, d, d) = ch

DigitValue(ch) == (CHOOSE d \in 1..Len(Digits) : SubSeq(Digits, d, d) = ch) - 1

IsNumeral(s) == Len(s) > 0 /\ \A i \in 1..Len(s) : IsDigit(SubSeq(s, i, i))

\* int(s) of a text of decimal digits.
RECURSIVE ParseInt(_)
ParseInt(s) ==
    IF Len(s) = 0 THEN 0
    ELSE 10 * ParseInt(SubSeq(s, 1, Len(s) - 1)) + DigitValue(SubSeq(s, Len(s), Len(s)))

UpperCase == "ABCDEFGHIJKLMNOPQRSTUVWXYZ"
LowerCase == "abcdefghijklmnopqrstuvwxyz"

\* Python s.lower().
RECURSIVE StrLower(_)
StrLower(s) ==
    IF Len(s) = 0 THEN s
    ELSE LET ch == SubSeq(s, 1, 1)
             lo == IF \E i \in 1..Len(UpperCase) : SubSeq(UpperCase, i, i) = ch
                   THEN LET i == CHOOSE i \in 1..Len(UpperCase) : SubSeq(UpperCase, i, i) = ch
                        IN  SubSeq(LowerCase, i, i)
                   ELSE ch
         IN  lo \o StrLower(SubSeq(s, 2, Len(s)))

\* The leading run of digits of s starting at place i (regex \d+ from there).
RECURSIVE DigitRun(_, _)
DigitRun(s, i) ==
    IF i <= Len(s) /\ IsDigit(SubSeq(s, i, i))
    THEN SubSeq(s, i, i) \o DigitRun(s, i + 1)
    ELSE ""

\* Series.str.extract(r"(\d+)"): the first run of digits of s, NA if none.
ExtractDigits(s) ==
    IF \E i \in 1..Len(s) : IsDigit(SubSeq(s, i, i))
    THEN DigitRun(s, CHOOSE i \in 1..Len(s) :
                        /\ IsDigit(SubSeq(s, i, i))
                        /\ \A j \in 1..(i - 1) : ~IsDigit(SubSeq(s, j, j)))
    ELSE NA

\* ------------------------------------------------------- the remote CSV

\* The most rows the remote table has.
MaxRows == 2

\* The columns of the remote CSV that the dashboard reads.
CsvColumns ==
    {"title", "type", "country", "release_year", "date_added", "rating",
     "duration", "listed_in", "description"}

BaseRow ==
    [title |-> "Title", type |-> "Movie", country |-> "United States, India",
     release_year |-> "2020", date_added |-> "September 25, 2021",
     rating |-> "PG-13", duration |-> "90 min",
     listed_in |-> "Dramas, Comedies", description |-> "A quiet town"]

TvRow ==
    [BaseRow EXCEPT !.type = "TV Show",
                    !.date_added = " August 4, 2017", !.rating = "TV-MA",
                    !.duration = "2 Seasons", !.listed_in = "Dramas",
                    !.description = NA]

\* The rows a raw table is drawn from: complete rows, rows with one of the
\* fields missing or malformed, and rows listing many, unknown or nested
\* country names.
RowPool ==
    { [TvRow EXCEPT !.country = "United States, India, Niger"],
      [BaseRow EXCEPT !.country = "France", !.date_added = "not a date"],
      [BaseRow EXCEPT !.country = "Nigeria", !.release_year = "2019"],
      [BaseRow EXCEPT !.country = "United States, India, France, Japan, Spain, Mexico"],
      [TvRow EXCEPT !.country = "Canada, Germany, Italy, Brazil, Russia, Mexico"],
      [TvRow EXCEPT !.country = "Soviet Union, Wakanda, "],
      [BaseRow EXCEPT !.type = NA],
      [BaseRow EXCEPT !.rating = NA],
      [BaseRow EXCEPT !.release_year = NA],
      [TvRow EXCEPT !.release_year = "unknown"],
      [BaseRow EXCEPT !.date_added = NA],
      [BaseRow EXCEPT !.country = NA] }

RawTables == UNION { [1..n -> RowPool] : n \in 0..MaxRows }

\* ---------------------------------------------------------- DataFrames

\* pd.DataFrame(): no columns, no rows.
EmptyDataFrame == [columns |-> {}, rows |-> <<>>]

\* pd.read_csv of a fetched table: every row gets its RangeIndex label.
read_csv(table) ==
    [columns |-> CsvColumns,
     rows |-> [i \in 1..Len(table) |->
                 [idx |-> i, title |-> table[i].title, type |-> table[i].type,
                  country |-> table[i].country,
                  release_year |-> table[i].release_year,
                  date_added |-> table[i].date_added, rating |-> table[i].rating,
                  duration |-> table[i].duration, listed_in |-> table[i].listed_in,
                  description |-> table[i].description, year_added |-> NaN]]]

MonthNames ==
    {"January", "February", "March", "April", "May", "June", "July",
     "August", "September", "October", "November", "December"}

\* pd.to_datetime(text, errors="coerce") followed by .dt.year, for the
\* "Month D, YYYY" texts of the dataset: the year, or NaN for NaT.
to_datetime_year(text) ==
    LET parts == StrSplit(text, " ")
    IN  IF /\ text # NA
           /\ Len(parts) = 3
           /\ parts[1] \in MonthNames
           /\ Len(parts[2]) \in 2..3
           /\ SubSeq(parts[2], Len(parts[2]), Len(parts[2])) = ","
           /\ IsNumeral(SubSeq(parts[2], 1, Len(parts[2]) - 1))
           /\ ParseInt(SubSeq(parts[2], 1, Len(parts[2]) - 1)) \in 1..31
           /\ Len(parts[3]) = 4
           /\ IsNumeral(parts[3])
        THEN ParseInt(parts[3])
        ELSE NaN

\* Series.str.strip(): NaN stays NaN.
str_strip(text) == IF text = NA THEN NA ELSE StrStrip(text)

\* read_csv gives a column whose fields are all empty the dtype float64,
\* which has no .str accessor; a table without rows keeps dtype object.
has_str_accessor(rows) ==
    Len(rows) = 0 \/ \E i \in 1..Len(rows) : rows[i].date_added # NA

\* The columns dropna looks at.
dropna_subset == {"rating", "release_year", "year_added", "country"}

isna(row, column) ==
    CASE column = "rating" -> row.rating = NA
      [] column = "release_year" -> row.release_year = NA
      [] column = "country" -> row.country = NA
      [] column = "year_added" -> row.year_added = NaN

\* dropna(how="all"): a row goes only when every column of the subset is
\* missing.
dropna_keeps_any(row) == \E c \in dropna_subset : ~isna(row, c)

\* df.dropna(subset=...): a row goes when any column of the subset is missing.
dropna_keeps(row) == \A c \in dropna_subset : ~isna(row, c)

dropna(rows) == SelectSeq(rows, dropna_keeps)

\* The two .astype(int) succeed when every release_year left is a number
\* and no year_added left is NaN.
astype_int_ok(rows) ==
    \A i \in 1..Len(rows) :
        IsNumeral(rows[i].release_year) /\ rows[i].year_added # NaN

\* The cleaning both load_data functions run on the fetched table: the
\* exception it raises (None when it returns) and the DataFrame it returns.
clean(fetched) ==
    LET raw == read_csv(fetched)
        dated == [i \in 1..Len(raw.rows) |->
                    [raw.rows[i] EXCEPT
                       !.year_added = to_datetime_year(str_strip(raw.rows[i].date_added))]]
        kept == dropna(dated)
    IN  IF ~has_str_accessor(raw.rows)
        THEN [raised |-> "AttributeError", df |-> EmptyDataFrame]
        ELSE IF ~astype_int_ok(kept)
        THEN [raised |-> "ValueError", df |-> EmptyDataFrame]
        ELSE [raised |-> None,
              df |-> [columns |-> CsvColumns \cup {"year_added"},
                      rows |-> [i \in 1..Len(kept) |->
                                  [kept[i] EXCEPT
                                     !.release_year = ParseInt(kept[i].release_year)]]]]

\* pd.read_csv(url) then the cleaning; net_ok is whether the GET succeeds.
fetch_and_clean(net_ok, table) ==
    IF net_ok THEN clean(table) ELSE [raised |-> "URLError", df |-> EmptyDataFrame]

\* data.py load_data: try / except Exception around the whole body.
data_load_data(net_ok, table) ==
    LET r == fetch_and_clean(net_ok, table)
    IN  IF r.raised = None
        THEN [raised |-> None, df |-> r.df, error |-> FALSE]
        ELSE [raised |-> None, df |-> EmptyDataFrame, error |-> TRUE]

\* dashboard.py load_data: the same body with no handler.
dashboard_load_data(net_ok, table) ==
    LET r == fetch_and_clean(net_ok, table)
    IN  [raised |-> r.raised, df |-> r.df, error |-> FALSE]

\* ---------------------------------------------------- pandas helpers

\* The elements of a sequence once each, in the order they first appear.
RECURSIVE Unique(_)
Unique(seq) ==
    IF Len(seq) = 0 THEN <<>>
    ELSE LET front == Unique(SubSeq(seq, 1, Len(seq) - 1))
             last == seq[Len(seq)]
         IN  IF \E i \in 1..Len(front) : front[i] = last
             THEN front
             ELSE Append(front, last)

Occurrences(seq, v) == Cardinality({i \in 1..Len(seq) : seq[i] = v})

\* Series.str.split(", ").explode() of a text column: the tokens of every
\* row's text, row after row.  A NaN text explodes to NaN, which every use
\* below (value_counts) drops, so it contributes no token here.
RECURSIVE explode(_)
explode(texts) ==
    IF Len(texts) = 0 THEN <<>>
    ELSE (IF Head(texts) = NA THEN <<>> ELSE StrSplit(Head(texts), ", "))
         \o explode(Tail(texts))

\* Series.nlargest(n, keep="first") on a sequence of [name, count]: the n
\* entries with the largest counts, largest first, the earlier entry first
\* among equal counts.
RECURSIVE nlargest(_, _)
nlargest(counts, n) ==
    IF n = 0 \/ Len(counts) = 0 THEN <<>>
    ELSE LET top == CHOOSE i \in 1..Len(counts) :
                        /\ \A j \in 1..Len(counts) : counts[j].count <= counts[i].count
                        /\ \A j \in 1..(i - 1) : counts[j].count < counts[i].count
             rest == [j \in 1..(Len(counts) - 1) |->
                        IF j < top THEN counts[j] ELSE counts[j + 1]]
         IN  <<counts[top]>> \o nlargest(rest, n - 1)

\* Series.value_counts(): one [name, count] per distinct value, the largest
\* count first.
value_counts(values) ==
    LET names == Unique(values)
        counts == [i \in 1..Len(names) |->
                     [name |-> names[i], count |-> Occurrences(values, names[i])]]
    IN  nlargest(counts, Len(counts))

Column(rows, field(_)) == [i \in 1..Len(rows) |-> field(rows[i])]

CountryOf(row) == row.country
GenreOf(row) == row.listed_in
TypeOf(row) == row.type

IsMovie(row) == row.type = "Movie"
IsTvShow(row) == row.type = "TV Show"
HasType(row) == row.type # NA

\* --------------------------------------------------- get_iso_alpha (ui.py)

\* The override table of get_iso_alpha.
country_map ==
    ("United States" :> "USA") @@ ("United Kingdom" :> "GBR") @@
    ("South Korea" :> "KOR") @@ ("West Germany" :> "DEU") @@
    ("Soviet Union" :> "RUS") @@ ("Czech Republic" :> "CZE")

\* The part of the pycountry registry the model carries, in the order of
\* the alpha-2 codes (the order search_fuzzy breaks ties by).
Registry ==
    << [name |-> "Brazil", alpha_2 |-> "BR", alpha_3 |-> "BRA"],
       [name |-> "Canada", alpha_2 |-> "CA", alpha_3 |-> "CAN"],
       [name |-> "Germany", alpha_2 |-> "DE", alpha_3 |-> "DEU"],
       [name |-> "Spain", alpha_2 |-> "ES", alpha_3 |-> "ESP"],
       [name |-> "France", alpha_2 |-> "FR", alpha_3 |-> "FRA"],
       [name |-> "India", alpha_2 |-> "IN", alpha_3 |-> "IND"],
       [name |-> "Italy", alpha_2 |-> "IT", alpha_3 |-> "ITA"],
       [name |-> "Japan", alpha_2 |-> "JP", alpha_3 |-> "JPN"],
       [name |-> "Mexico", alpha_2 |-> "MX", alpha_3 |-> "MEX"],
       [name |-> "Niger", alpha_2 |-> "NE", alpha_3 |-> "NER"],
       [name |-> "Nigeria", alpha_2 |-> "NG", alpha_3 |-> "NGA"],
       [name |-> "Russian Federation", alpha_2 |-> "RU", alpha_3 |-> "RUS"],
       [name |-> "United States", alpha_2 |-> "US", alpha_3 |-> "USA"] >>

\* pycountry.countries.get(name=...): the entries of that exact name (one or
\* none; none is pycountry's None).
countries_get(country_name) ==
    SelectSeq(Registry, LAMBDA c : c.name = country_name)

\* The registry as search_fuzzy compares it: every field in lower case.
RegistryLower ==
    [i \in 1..Len(Registry) |->
       [name |-> StrLower(Registry[i].name), alpha_2 |-> StrLower(Registry[i].alpha_2),
        alpha_3 |-> StrLower(Registry[i].alpha_3), code |-> Registry[i].alpha_3]]

\* The points search_fuzzy gives an entry for a query (0: no match): 50 for
\* a case-blind exact match of a field, max(5, 30 - 2 * place) for a name
\* that contains the query.
fuzzy_points(c, query) ==
    (IF query \in {c.name, c.alpha_2, c.alpha_3} THEN 50 ELSE 0)
    + (IF StrContains(query, c.name)
       THEN LET p == 30 - 2 * StrFind(c.name, query)
            IN  IF p < 5 THEN 5 ELSE p
       ELSE 0)

\* pycountry.countries.search_fuzzy(name): the matching entries, best first;
\* the empty sequence stands for the LookupError it raises on no match.
search_fuzzy(country_name) ==
    LET query == StrLower(StrStrip(country_name))
        scored == [i \in 1..Len(RegistryLower) |->
                     [name |-> RegistryLower[i].code,
                      count |-> fuzzy_points(RegistryLower[i], query)]]
        hits == SelectSeq(scored, LAMBDA h : h.count > 0)
    IN  nlargest(hits, Len(hits))

\* Line 22: .alpha_3 of what get returned; of None it is an AttributeError.
exact_lookup(country_name) ==
    LET found == countries_get(country_name)
    IN  IF Len(found) = 0
        THEN [raised |-> "AttributeError", value |-> None]
        ELSE [raised |-> None, value |-> found[1].alpha_3]

\* Line 25: .alpha_3 of the best fuzzy match, or search_fuzzy's LookupError.
fuzzy_lookup(country_name) ==
    LET found == search_fuzzy(country_name)
    IN  IF Len(found) = 0
        THEN [raised |-> "LookupError", value |-> None]
        ELSE [raised |-> None, value |-> found[1].name]

\* The exception a call ends with after an except clause for `caught` whose
\* body is `handler`.
Except(attempt, caught, handler) ==
    IF attempt.raised = caught THEN handler ELSE attempt

\* get_iso_alpha without the inner except: a LookupError reaches the caller.
get_iso_alpha_unguarded(country_name) ==
    IF country_name \in DOMAIN country_map
    THEN [raised |-> None, value |-> country_map[country_name]]
    ELSE Except(exact_lookup(country_name), "AttributeError",
                fuzzy_lookup(country_name))

\* get_iso_alpha: the override table, then the exact lookup, then (on its
\* AttributeError) the fuzzy lookup, then (on its LookupError) None.
get_iso_alpha(country_name) ==
    IF country_name \in DOMAIN country_map
    THEN [raised |-> None, value |-> country_map[country_name]]
    ELSE Except(exact_lookup(country_name), "AttributeError",
                Except(fuzzy_lookup(country_name), "LookupError",
                       [raised |-> None, value |-> None]))

\* ------------------------------------------------------------ the session

\* The cap on the fetches of one session.
MaxFetches == 3

VARIABLES
    entry,              \* the script run: "app" (data.py + ui.py) or "dashboard"
    remote,             \* the table behind the URL
    cache,              \* st.cache_data's store for load_data: <<>> or <<result>>
    fetches,            \* how many times the URL was fetched
    pc,                 \* where the running script is
    cause,              \* why this run started: "first" or "filter"
    fetched,            \* whether this run fetched the URL
    df,                 \* what load_data returned to this run
    error_shown,        \* whether this run shows an st.error message
    raised,             \* the exception that stopped this run, or None
    widgets,            \* whether this run has rendered a filter widget
    content_type, selected_countries, year_range,
    filtered_df,        \* the rows of the filtered view
    page                \* the metrics and aggregates of the main page

vars ==
    <<entry, remote, cache, fetches, pc, cause, fetched, df, error_shown, raised,
      widgets, content_type, selected_countries, year_range, filtered_df, page>>

session == <<entry, remote>>
filters == <<content_type, selected_countries, year_range>>

NoPage == [computed |-> FALSE]

Init ==
    /\ entry \in {"app", "dashboard"}
    /\ remote \in RawTables
    /\ cache = <<>>
    /\ fetches = 0
    /\ pc = "start"
    /\ cause = "first"
    /\ fetched = FALSE
    /\ df = EmptyDataFrame
    /\ error_shown = FALSE
    /\ raised = None
    /\ widgets = FALSE
    /\ content_type = "All"
    /\ selected_countries = {}
    /\ year_range = <<0, 0>>
    /\ filtered_df = <<>>
    /\ page = NoPage

\* A load_data without memoization: the body runs on every call.
cache_never_hit(store) == FALSE

\* @st.cache_data: a stored result is returned without running the body.
cache_hit(store) == Len(store) > 0

\* The body of the load_data this entry point calls.
load_data(net_ok) ==
    IF entry = "app"
    THEN data_load_data(net_ok, remote)
    ELSE dashboard_load_data(net_ok, remote)

\* df = load_data() under @st.cache_data: a hit replays the stored return
\* value and its st.error; a miss runs the body and stores what it returns,
\* and stores nothing when it raises.
LoadData ==
    /\ pc = "start"
    /\ IF cache_hit(cache)
       THEN /\ df' = cache[1].df
            /\ error_shown' = cache[1].error
            /\ pc' = "loaded"
            /\ UNCHANGED <<cache, fetches, fetched, raised>>
       ELSE /\ fetches < MaxFetches
            /\ \E net_ok \in BOOLEAN :
                 LET r == load_data(net_ok)
                 IN  /\ fetches' = fetches + 1
                     /\ fetched' = TRUE
                     /\ raised' = r.raised
                     /\ error_shown' = r.error
                     /\ df' = r.df
                     /\ cache' = IF r.raised = None THEN <<r>> ELSE cache
                     /\ pc' = IF r.raised = None THEN "loaded" ELSE "stopped"
    /\ UNCHANGED <<session, cause, widgets, filters, filtered_df, page>>

\* The default of the country multiselect.
default_countries == {"United States", "India"}

\* all_countries: the distinct tokens of the country column.
all_countries(frame) ==
    LET tokens == explode(Column(frame.rows, CountryOf))
    IN  {tokens[i] : i \in 1..Len(tokens)}

ReleaseYears(frame) == {frame.rows[i].release_year : i \in 1..Len(frame.rows)}

min_year(frame) == CHOOSE y \in ReleaseYears(frame) : \A z \in ReleaseYears(frame) : y <= z
max_year(frame) == CHOOSE y \in ReleaseYears(frame) : \A z \in ReleaseYears(frame) : y >= z

\* What the user may have set the country multiselect to: nothing, one of
\* the options, or the default.
Selections(options) == {{}} \cup {{c} : c \in options} \cup {default_countries}

\* create_sidebar (and the same lines of dashboard.py): the selectbox, then
\* the country column is read (KeyError on a frame without it), then the
\* multiselect (an exception when a default is no option), then the slider.
\* The first run shows the defaults; a rerun carries what the user set.
CreateSidebar ==
    /\ pc = "loaded"
    /\ widgets' = TRUE
    /\ IF "country" \notin df.columns
       THEN /\ raised' = "KeyError"
            /\ pc' = "stopped"
            /\ UNCHANGED filters
       ELSE IF ~(default_countries \subseteq all_countries(df))
       THEN /\ raised' = "StreamlitAPIException"
            /\ pc' = "stopped"
            /\ UNCHANGED filters
       ELSE /\ LET lowest == min_year(df)
                   highest == max_year(df)
               IN  \E ct \in {"All", "Movie", "TV Show"},
                      sel \in Selections(all_countries(df)),
                      lo \in lowest..highest, hi \in lowest..highest :
                     /\ lo <= hi
                     /\ cause = "first" =>
                            /\ ct = "All"
                            /\ sel = default_countries
                            /\ lo = lowest
                            /\ hi = highest
                     /\ content_type' = ct
                     /\ selected_countries' = sel
                     /\ year_range' = <<lo, hi>>
            /\ pc' = "sidebar"
            /\ UNCHANGED raised
    /\ UNCHANGED <<session, cache, fetches, cause, fetched, df, error_shown,
                   filtered_df, page>>

\* lambda x: any(c in x for c in selected_countries)
country_selected(x, selected) == \E c \in selected : StrContains(c, x)

\* The country filter without its `if selected_countries:` guard.
country_filter_always(rows, selected) ==
    SelectSeq(rows, LAMBDA r : country_selected(r.country, selected))

\* if selected_countries: keep the rows the lambda accepts.
country_filter(rows, selected) ==
    IF selected # {}
    THEN SelectSeq(rows, LAMBDA r : country_selected(r.country, selected))
    ELSE rows

\* if content_type != "All": keep the rows of that type.
type_filter(rows, ct) ==
    IF ct # "All" THEN SelectSeq(rows, LAMBDA r : r.type = ct) ELSE rows

\* The rows with release_year in the slider's range, ends included.
year_filter(rows, range) ==
    SelectSeq(rows, LAMBDA r : r.release_year >= range[1] /\ r.release_year <= range[2])

filter(rows, ct, selected, range) ==
    country_filter(type_filter(year_filter(rows, range), ct), selected)

\* filtered_df: the three filters one after the other.
ApplyFilter ==
    /\ pc = "sidebar"
    /\ filtered_df' = filter(df.rows, content_type, selected_countries, year_range)
    /\ pc' = "filtered"
    /\ UNCHANGED <<session, cache, fetches, cause, fetched, df, error_shown, raised,
                   widgets, filters, page>>

\* ------------------------------------------------------- the main page

TopCountries == 10
TopGenres == 15

\* The three st.metric values.
metrics(rows) ==
    [total |-> Len(rows),
     movies |-> Len(SelectSeq(rows, IsMovie)),
     tv_shows |-> Len(SelectSeq(rows, IsTvShow))]

\* filtered_df["type"].value_counts(): NaN is not counted.
type_counts(rows) == value_counts(Column(SelectSeq(rows, HasType), TypeOf))

\* The exploded country counts before any truncation.
all_country_counts(rows) == value_counts(explode(Column(rows, CountryOf)))

\* .nsmallest(10) in place of .nlargest(10): the ten rarest names.
country_counts_smallest(rows) ==
    LET counts == all_country_counts(rows)
    IN  IF Len(counts) <= TopCountries THEN counts
        ELSE SubSeq(counts, Len(counts) - TopCountries + 1, Len(counts))

\* country_counts of the bar chart: .nlargest(10).
country_counts(rows) == nlargest(all_country_counts(rows), TopCountries)

\* genre_counts: .nlargest(15) of the exploded listed_in counts.
genre_counts(rows) ==
    nlargest(value_counts(explode(Column(rows, GenreOf))), TopGenres)

\* create_world_map, lines 61-65: the exploded counts, each with what
\* get_iso_alpha made of its name.
coded_counts(rows) ==
    LET counts == all_country_counts(rows)
    IN  [i \in 1..Len(counts) |->
           LET code == get_iso_alpha(counts[i].name)
           IN  [country |-> counts[i].name, count |-> counts[i].count,
                raised |-> code.raised, iso_alpha |-> code.value]]

\* create_world_map without its dropna: unresolved names stay in the table.
map_counts_keep_all(coded) ==
    [i \in 1..Len(coded) |->
       [country |-> coded[i].country, count |-> coded[i].count,
        iso_alpha |-> coded[i].iso_alpha]]

\* create_world_map, line 66: dropna on the code (a None code is missing).
map_counts(coded) ==
    LET kept == SelectSeq(coded, LAMBDA c : c.iso_alpha # None)
    IN  [i \in 1..Len(kept) |->
           [country |-> kept[i].country, count |-> kept[i].count,
            iso_alpha |-> kept[i].iso_alpha]]

\* .str.extract(r"(\d+)").astype(float) of one duration text.
duration_number(text) ==
    LET digits == IF text = NA THEN NA ELSE ExtractDigits(text)
    IN  IF digits = NA THEN NaN ELSE ParseInt(digits)

\* create_duration_histogram: the runtimes of the movies, or for TV shows
\* the number of shows per season count (NaN is not counted).
durations(rows, ct) ==
    IF ct = "TV Show"
    THEN LET seasons == Column(SelectSeq(rows, IsTvShow),
                               LAMBDA r : duration_number(r.duration))
             known == {seasons[i] : i \in 1..Len(seasons)} \ {NaN}
         IN  [kind |-> "seasons",
              values |-> [k \in known |-> Occurrences(seasons, k)]]
    ELSE [kind |-> "minutes",
          values |-> Column(SelectSeq(rows, IsMovie),
                            LAMBDA r : duration_number(r.duration))]

RECURSIVE Join(_, _)
Join(texts, sep) ==
    IF Len(texts) = 0 THEN ""
    ELSE IF Len(texts) = 1 THEN texts[1]
    ELSE texts[1] \o sep \o Join(Tail(texts), sep)

\* create_description_wordcloud: the descriptions that are present, joined.
description_corpus(rows) ==
    Join(Column(SelectSeq(rows, LAMBDA r : r.description # NA),
                LAMBDA r : r.description), " ")

\* dashboard.py, added_by_year: the titles counted per year_added.
added_by_year(rows) ==
    LET years == {rows[i].year_added : i \in 1..Len(rows)}
    IN  [y \in years |->
           Cardinality({i \in 1..Len(rows) :
                          rows[i].year_added = y /\ rows[i].title # NA})]

\* create_main_page of ui.py.  world_counts is create_world_map's table
\* before its dropna and all_country_counts the bar chart's chain before
\* .nlargest(10), both kept to state claims about them.
app_page(rows, ct) ==
    [computed |-> TRUE,
     metrics |-> metrics(rows),
     world_counts |-> coded_counts(rows),
     map_counts |-> map_counts(coded_counts(rows)),
     type_counts |-> type_counts(rows),
     all_country_counts |-> all_country_counts(rows),
     country_counts |-> country_counts(rows),
     genre_counts |-> genre_counts(rows),
     durations |-> durations(rows, ct),
     corpus |-> description_corpus(rows)]

\* The main page of dashboard.py, lines 78-138.  all_country_counts is the
\* value of the chain before .nlargest(10), kept to state claims about it.
dashboard_page(rows) ==
    [computed |-> TRUE,
     metrics |-> metrics(rows),
     type_counts |-> type_counts(rows),
     all_country_counts |-> all_country_counts(rows),
     country_counts |-> country_counts(rows),
     added_by_year |-> added_by_year(rows)]

\* The exception get_iso_alpha lets out of create_world_map, None if none.
map_raised(coded) ==
    IF \E i \in 1..Len(coded) : coded[i].raised # None
    THEN coded[CHOOSE i \in 1..Len(coded) :
                 /\ coded[i].raised # None
                 /\ \A j \in 1..(i - 1) : coded[j].raised = None].raised
    ELSE None

\* The metrics and every chart of the page, from the filtered view.
MainPage ==
    /\ pc = "filtered"
    /\ IF entry = "app" /\ map_raised(coded_counts(filtered_df)) # None
       THEN /\ raised' = map_raised(coded_counts(filtered_df))
            /\ pc' = "stopped"
            /\ UNCHANGED page
       ELSE /\ page' = IF entry = "app"
                       THEN app_page(filtered_df, content_type)
                       ELSE dashboard_page(filtered_df)
            /\ pc' = "done"
            /\ UNCHANGED raised
    /\ UNCHANGED <<session, cache, fetches, cause, fetched, df, error_shown,
                   widgets, filters, filtered_df>>

\* The user changes a filter widget this run has rendered: Streamlit runs
\* the script again from the top, with the cache and nothing else kept.
\* A run that was stopped before its first widget leaves nothing to change.
Rerun ==
    /\ pc \in {"done", "stopped"}
    /\ widgets
    /\ pc' = "start"
    /\ cause' = "filter"
    /\ fetched' = FALSE
    /\ df' = EmptyDataFrame
    /\ error_shown' = FALSE
    /\ raised' = None
    /\ widgets' = FALSE
    /\ content_type' = "All"
    /\ selected_countries' = {}
    /\ year_range' = <<0, 0>>
    /\ filtered_df' = <<>>
    /\ page' = NoPage
    /\ UNCHANGED <<session, cache, fetches>>

Next == LoadData \/ CreateSidebar \/ ApplyFilter \/ MainPage \/ Rerun

Spec == Init /\ [][Next]_vars
\* ------------------------------------------------------------- claims

\* The tokens a country text lists: its parts between ", ".
Listed(text) == LET parts == StrSplit(text, ", ") IN {parts[i] : i \in 1..Len(parts)}

\* Every name the rows list, row after row, a name once per place it is at.
RECURSIVE ListedNames(_)
ListedNames(rows) ==
    IF Len(rows) = 0 THEN <<>>
    ELSE StrSplit(Head(rows).country, ", ") \o ListedNames(Tail(rows))

RECURSIVE SumCounts(_)
SumCounts(counts) ==
    IF Len(counts) = 0 THEN 0 ELSE Head(counts).count + SumCounts(Tail(counts))

Indices(rows) == {rows[i].idx : i \in 1..Len(rows)}

NamesOf(counts) == {counts[i].name : i \in 1..Len(counts)}

\* C1: with a non-empty selection, a record that passed the year and type
\* filters is in the filtered view exactly when one of the country names
\* it lists is a selected name.
C1_KeptIffAListedCountryIsSelected ==
    (pc = "filtered" /\ selected_countries # {}) =>
        LET before == type_filter(year_filter(df.rows, year_range), content_type)
        IN  \A i \in 1..Len(before) :
               (before[i].idx \in Indices(filtered_df))
                   <=> (Listed(before[i].country) \cap selected_countries # {})

\* C2: once load_data was called, no exception has left it (a run is never
\* stopped before its first widget), and a table whose cleaning fails has
\* given the empty DataFrame with an error shown.
C2_LoadFailureIsContained ==
    pc # "start" =>
        /\ ~(raised # None /\ ~widgets)
        /\ clean(remote).raised # None => (df = EmptyDataFrame /\ error_shown)

\* C3: a run whose loader degraded to the empty DataFrame raises nowhere,
\* and every count of its page is zero.
C3_EmptyDatasetIsTolerated ==
    (pc # "start" /\ error_shown /\ df = EmptyDataFrame) =>
        /\ raised = None
        /\ page.computed =>
              /\ page.metrics = [total |-> 0, movies |-> 0, tv_shows |-> 0]
              /\ Len(page.type_counts) = 0
              /\ Len(page.country_counts) = 0
              /\ Len(page.map_counts) = 0
              /\ Len(page.genre_counts) = 0
              /\ Len(page.durations.values) = 0
              /\ page.corpus = ""

\* C4: the URL is fetched at most once in a session, and a run started by
\* a filter change fetches nothing: load_data gives it the memoized result,
\* the empty DataFrame with its error included.
C4_FetchedAtMostOnce ==
    /\ fetches <= 1
    /\ (cause = "filter" /\ pc # "start") =>
          /\ ~fetched
          /\ cache_hit(cache)
          /\ (pc = "loaded" => (df = cache[1].df /\ error_shown = cache[1].error))

\* C4's case: a rerun that got the memoized failure result.
C4_Witness ==
    /\ cause = "filter"
    /\ pc = "loaded"
    /\ fetches = 1
    /\ df = EmptyDataFrame
    /\ error_shown

\* The date texts of the remote table that are dates.
ParseableDates == {"September 25, 2021", " August 4, 2017"}

\* The raw rows (by RangeIndex label) with the four fields present and a
\* date that parses.
CompleteRows ==
    {i \in 1..Len(remote) :
        /\ remote[i].rating # NA
        /\ remote[i].release_year # NA
        /\ remote[i].country # NA
        /\ remote[i].date_added \in ParseableDates}

LoadSucceeded == pc = "loaded" /\ raised = None /\ ~error_shown

\* C5: after a successful load every record has rating, release_year,
\* year_added and country, the two years whole numbers, and the records are
\* exactly the raw rows that had the four fields and a parseable date.
C5_CleanedRowsAreComplete ==
    LoadSucceeded =>
        /\ \A i \in 1..Len(df.rows) :
              /\ df.rows[i].rating # NA
              /\ df.rows[i].country # NA
              /\ df.rows[i].release_year \in Nat \ {NaN}
              /\ df.rows[i].year_added \in Nat \ {NaN}
        /\ Indices(df.rows) = CompleteRows
        /\ Len(df.rows) = Cardinality(CompleteRows)

\* C5's case: a successful load that dropped the row with the unparseable
\* date and kept the other.
C5_Witness ==
    /\ LoadSucceeded
    /\ Len(remote) = 2
    /\ remote[2].date_added = "not a date"
    /\ Indices(df.rows) = {1}

HasExactName(name) == \E i \in 1..Len(Registry) : Registry[i].name = name

\* C6: get_iso_alpha never raises into the page, and for every name it was
\* given it returned a 3-letter code or None: the override table's code for
\* a name of that table, else the registry's code for a name the registry
\* has, else the best fuzzy match, and None exactly when all three fail.
C6_ResolverIsTotal ==
    /\ (entry = "app" /\ pc = "stopped") => raised \in {"KeyError", "StreamlitAPIException"}
    /\ (entry = "app" /\ page.computed) =>
          \A i \in 1..Len(page.world_counts) :
             LET c == page.world_counts[i]
             IN  /\ c.raised = None
                 /\ c.iso_alpha = None \/ Len(c.iso_alpha) = 3
                 /\ c.country \in DOMAIN country_map =>
                        c.iso_alpha = country_map[c.country]
                 /\ (c.country \notin DOMAIN country_map /\ HasExactName(c.country)) =>
                        \E j \in 1..Len(Registry) :
                            /\ Registry[j].name = c.country
                            /\ Registry[j].alpha_3 = c.iso_alpha
                 /\ c.iso_alpha = None <=>
                        /\ c.country \notin DOMAIN country_map
                        /\ ~HasExactName(c.country)
                        /\ Len(search_fuzzy(c.country)) = 0

\* C6's case: one page whose names went through all of the resolver: an
\* override, a fuzzy match (of the empty name too) and a miss.
C6_Witness ==
    /\ entry = "app"
    /\ page.computed
    /\ \E i, j, k \in 1..Len(page.world_counts) :
          /\ page.world_counts[i].country = "Soviet Union"
          /\ page.world_counts[i].iso_alpha = "RUS"
          /\ page.world_counts[j].country = ""
          /\ page.world_counts[j].iso_alpha # None
          /\ page.world_counts[k].country = "Wakanda"
          /\ page.world_counts[k].iso_alpha = None

\* C7: the per-type counts of the page add up to its Total Titles, as the
\* type value counts and as Movies plus TV Shows.
C7_TypeCountsAddUp ==
    page.computed =>
        /\ SumCounts(page.type_counts) = page.metrics.total
        /\ page.metrics.movies + page.metrics.tv_shows = page.metrics.total

\* C8: the untruncated count of a name is the number of times the filtered
\* records list it, so the counts add up to the number of listed countries;
\* the top-10 has at most 10 names, each once with that count, and no name
\* left out is listed more often than a name in it.
C8_CountryCountsExpand ==
    page.computed =>
        LET all == page.all_country_counts
            top == page.country_counts
            listed == ListedNames(filtered_df)
        IN  /\ \A i \in 1..Len(all) : all[i].count = Occurrences(listed, all[i].name)
            /\ \A i, j \in 1..Len(all) : all[i].name = all[j].name => i = j
            /\ SumCounts(all) = Len(listed)
            /\ Len(top) <= TopCountries
            /\ Len(top) = TopCountries \/ Len(top) = Len(all)
            /\ \A i \in 1..Len(top) : top[i].count = Occurrences(listed, top[i].name)
            /\ \A i, j \in 1..Len(top) : top[i].name = top[j].name => i = j
            /\ \A i \in 1..Len(all) :
                  all[i].name \notin NamesOf(top) =>
                      \A j \in 1..Len(top) : all[i].count <= top[j].count

\* C8's case: more than 10 names are listed, one of them twice, and the
\* top-10 left a name out.
C8_Witness ==
    /\ page.computed
    /\ Len(page.all_country_counts) > TopCountries
    /\ Len(page.country_counts) = TopCountries
    /\ page.country_counts[1].count = 2

\* C9: a name the resolver left unresolved is not in the map's table, every
\* resolved name is in it with its full count, and the unresolved name keeps
\* its full count in the country counts; the filtered view and the metrics
\* are what they were before the map was made.
C9_MissLeavesOnlyTheMap ==
    (entry = "app" /\ page.computed) =>
        /\ \A i \in 1..Len(page.world_counts) :
              LET c == page.world_counts[i]
                  times == Occurrences(ListedNames(filtered_df), c.country)
                  inMap == {k \in 1..Len(page.map_counts) :
                               page.map_counts[k].country = c.country}
              IN  /\ c.iso_alpha = None => inMap = {}
                  /\ c.iso_alpha # None =>
                        /\ Cardinality(inMap) = 1
                        /\ \A k \in inMap :
                              page.map_counts[k].count = times
                  /\ \E k \in 1..Len(page.all_country_counts) :
                        /\ page.all_country_counts[k].name = c.country
                        /\ page.all_country_counts[k].count = times
                  /\ Len(page.all_country_counts) <= TopCountries =>
                        \E k \in 1..Len(page.country_counts) :
                            /\ page.country_counts[k].name = c.country
                            /\ page.country_counts[k].count = times
        /\ Len(page.map_counts) <= Len(page.world_counts)
        /\ filtered_df = filter(df.rows, content_type, selected_countries, year_range)
        /\ page.metrics.total = Len(filtered_df)

\* C9's case: a page with an unresolved name beside resolved ones.
C9_Witness ==
    /\ entry = "app"
    /\ page.computed
    /\ Len(page.map_counts) >= 2
    /\ \E i \in 1..Len(page.world_counts) :
          /\ page.world_counts[i].country = "Wakanda"
          /\ page.world_counts[i].iso_alpha = None
          /\ page.world_counts[i].count = 1

\* C10: with "All", no country selected and the full range of release years
\* the filtered view is the whole cleaned table in its order; with no
\* country selected it is the rows that pass the year and type filters.
C10_UnconstrainedFilterKeepsAll ==
    pc = "filtered" =>
        /\ (/\ content_type = "All"
            /\ selected_countries = {}
            /\ year_range = <<min_year(df), max_year(df)>>) => filtered_df = df.rows
        /\ selected_countries = {} =>
              filtered_df =
                  SelectSeq(df.rows, LAMBDA r :
                      /\ year_range[1] <= r.release_year
                      /\ r.release_year <= year_range[2]
                      /\ (content_type = "All" \/ r.type = content_type))

\* C10's case: the unconstrained filter on a table with a record that lists
\* none of the default countries.
C10_Witness ==
    /\ pc = "filtered"
    /\ content_type = "All"
    /\ selected_countries = {}
    /\ year_range = <<min_year(df), max_year(df)>>
    /\ Len(filtered_df) = 2
    /\ \E i \in 1..2 : filtered_df[i].country = "Nigeria"
====
